---- MODULE Spec2Model ----
(***************************************************************************)
(* CircuitMark parser (src/parser.py) and data model (src/models.py).      *)
(*                                                                         *)
(* A Python str is a sequence of one-character strings, so that strip,     *)
(* split, startswith, lower and shlex.split are computed character by      *)
(* character.  Parser.parse is a state machine that consumes one line of   *)
(* the document per step; the Circuit under construction, the loop's       *)
(* locals and the exception that leaves parse() are the state.             *)
(***************************************************************************)
EXTENDS Integers, Sequences, FiniteSets, TLC

\* ------------------------------------------------------------------------
\* Documents: the lines a document is made of
\* ------------------------------------------------------------------------

\* Longest document read, and the most lines buffered inside one block.
MaxLines == 5
MaxBlockLines == 2

L_blank == <<>>  \* (empty line)
L_comment == <<" "," ","#"," ","c">>  \* (two spaces) # c
L_node == <<"n","o","d","e">>  \* node
L_node_comma == <<"n","o","d","e"," ",",">>  \* node ,
L_node_a_b == <<"n","o","d","e"," ","a",",","b">>  \* node a,b
L_node_b_b == <<"n","o","d","e"," ","b",",","b">>  \* node b,b
L_node_a == <<"N","o","d","e"," ","a">>  \* Node a
L_ground == <<"g","r","o","u","n","d">>  \* ground
L_ground_a == <<"g","r","o","u","n","d"," ","a">>  \* ground a
L_ground_b == <<"g","r","o","u","n","d"," ","b">>  \* ground b
L_ground_a_b == <<"g","r","o","u","n","d"," ","a"," ","b">>  \* ground a b
L_ground_empty == <<"g","r","o","u","n","d"," ","\"","\"">>  \* ground ""
L_res_R1 == <<"r","e","s","i","s","t","o","r"," ","R","1"," ","1","0","k"," ","f","r","o","m"," ","a"," ","t","o"," ","b">>  \* resistor R1 10k from a to b
L_cap_R1 == <<"c","a","p","a","c","i","t","o","r"," ","R","1"," ","f","r","o","m"," ","b"," ","t","o"," ","a">>  \* capacitor R1 from b to a
L_cap_R1_short == <<"c","a","p","a","c","i","t","o","r"," ","R","1"," ","f","r","o","m"," ","a"," ","t","o"," ","a">>  \* capacitor R1 from a to a
L_res_R2_pins == <<"R","e","s","i","s","t","o","r"," ","R","2"," ","t","o","=","b"," ","f","r","o","m","=","a">>  \* Resistor R2 to=b from=a
L_res_R2_undecl == <<"r","e","s","i","s","t","o","r"," ","R","2"," ","f","r","o","m"," ","a"," ","t","o"," ","c">>  \* resistor R2 from a to c
L_cap_C1_freq == <<"c","a","p","a","c","i","t","o","r"," ","C","1"," ","f","r","o","m"," ","a"," ","t","o"," ","b"," ","f","r","e","q","u","e","n","c","y","=","1","k">>  \* capacitor C1 from a to b frequency=1k
L_cap_C1_bogus == <<"c","a","p","a","c","i","t","o","r"," ","C","1"," ","f","r","o","m"," ","a"," ","t","o"," ","b"," ","b","o","g","u","s","=","1">>  \* capacitor C1 from a to b bogus=1
L_unknown == <<"f","o","o"," ","x">>  \* foo x
L_quote == <<"n","o","d","e"," ","\"","a">>  \* node "a
L_start_amp == <<"[","s","u","b","c","i","r","c","u","i","t"," ","a","m","p","]">>  \* [subcircuit amp]
L_start_Amp == <<"[","s","u","b","c","i","r","c","u","i","t"," ","A","m","p","]">>  \* [subcircuit Amp]
L_start_noname == <<"[","s","u","b","c","i","r","c","u","i","t","]">>  \* [subcircuit]
L_start_blank == <<"[","s","u","b","c","i","r","c","u","i","t"," ","]">>  \* [subcircuit ]
L_end == <<"[","/","s","u","b","c","i","r","c","u","i","t","]">>  \* [/subcircuit]
L_expose == <<"e","x","p","o","s","e">>  \* expose
L_expose_a_b == <<"e","x","p","o","s","e"," ","a",",","b">>  \* expose a,b
L_expose_map == <<"e","x","p","o","s","e"," ","p","=","q">>  \* expose p=q
L_expose_hole == <<"e","x","p","o","s","e"," ","a",",",",","b">>  \* expose a,,b
L_expose_nopub == <<"e","x","p","o","s","e"," ","=","q">>  \* expose =q
L_amp_X1 == <<"a","m","p"," ","X","1"," ","f","r","o","m"," ","a"," ","t","o"," ","b">>  \* amp X1 from a to b
L_Amp_X1 == <<"A","m","p"," ","X","1"," ","f","r","o","m"," ","a"," ","t","o"," ","b">>  \* Amp X1 from a to b
L_amp_X2_pin == <<"a","m","p"," ","X","2"," ","a","=","b">>  \* amp X2 a=b
L_res_R3_empty == <<"r","e","s","i","s","t","o","r"," ","R","3"," ","5"," ","f","r","o","m"," ","\"","\""," ","t","o"," ","b">>  \* resistor R3 5 from "" to b
L_amp_X3_from == <<"a","m","p"," ","X","3"," ","f","r","o","m","=","a">>  \* amp X3 from=a

\* The lines of a document.
Lines ==
    {L_blank, L_comment, L_node, L_node_comma, L_node_a_b, L_node_b_b,
     L_node_a, L_ground, L_ground_a, L_ground_b, L_ground_a_b,
     L_ground_empty, L_res_R1, L_cap_R1, L_cap_R1_short, L_res_R2_pins,
     L_res_R2_undecl, L_cap_C1_freq, L_cap_C1_bogus, L_unknown, L_quote,
     L_start_amp, L_start_Amp, L_start_noname, L_start_blank, L_end,
     L_expose, L_expose_a_b, L_expose_map, L_expose_hole, L_expose_nopub,
     L_amp_X1, L_Amp_X1, L_amp_X2_pin, L_res_R3_empty, L_amp_X3_from}

\* The lines a document carries between the block markers.
BodyLines ==
    {L_blank, L_comment, L_expose, L_expose_a_b, L_expose_map,
     L_expose_hole, L_expose_nopub, L_node_a_b, L_ground_a, L_res_R1,
     L_unknown}

\* ------------------------------------------------------------------------
\* Python str primitives
\* ------------------------------------------------------------------------

\* Characters str.strip() with no argument removes.
Whitespace == {" ", "\t", "\r"}

RECURSIVE lstrip_chars(_, _)
lstrip_chars(s, chars) ==
    IF s # <<>> /\ Head(s) \in chars THEN lstrip_chars(Tail(s), chars) ELSE s

RECURSIVE rstrip_chars(_, _)
rstrip_chars(s, chars) ==
    IF s # <<>> /\ s[Len(s)] \in chars
    THEN rstrip_chars(SubSeq(s, 1, Len(s) - 1), chars)
    ELSE s

\* s.strip(chars)
strip_chars(s, chars) == rstrip_chars(lstrip_chars(s, chars), chars)

\* s.strip(), tabulated once for the lines of a document
StripTable == [l \in Lines |-> strip_chars(l, Whitespace)]

\* s.strip()
strip(s) == IF s \in Lines THEN StripTable[s] ELSE strip_chars(s, Whitespace)

\* s.startswith(prefix)
startswith(s, prefix) ==
    Len(s) >= Len(prefix) /\ SubSeq(s, 1, Len(prefix)) = prefix

\* c in s
contains(s, c) == \E i \in 1..Len(s) : s[i] = c

\* index of the first occurrence of c in s (0 when absent)
find(s, c) ==
    IF contains(s, c)
    THEN CHOOSE i \in 1..Len(s) : s[i] = c /\ \A j \in 1..(i - 1) : s[j] # c
    ELSE 0

\* s.split(sep) for a one-character sep: always at least one piece.
RECURSIVE split_on(_, _)
split_on(s, sep) ==
    IF ~contains(s, sep)
    THEN <<s>>
    ELSE <<SubSeq(s, 1, find(s, sep) - 1)>>
         \o split_on(SubSeq(s, find(s, sep) + 1, Len(s)), sep)

\* s.split(sep, 1): <<s>> or <<before, after>>
split_once(s, sep) ==
    IF ~contains(s, sep)
    THEN <<s>>
    ELSE <<SubSeq(s, 1, find(s, sep) - 1), SubSeq(s, find(s, sep) + 1, Len(s))>>

\* length of the leading run of non-whitespace characters
RECURSIVE word_len(_)
word_len(s) ==
    IF s = <<>> \/ Head(s) \in Whitespace THEN 0 ELSE 1 + word_len(Tail(s))

\* s.split(maxsplit=1): whitespace split, the remainder kept as one piece.
split_maxsplit1(s) ==
    LET t    == lstrip_chars(s, Whitespace)
        n    == word_len(t)
        rest == lstrip_chars(SubSeq(t, n + 1, Len(t)), Whitespace)
    IN  IF t = <<>> THEN <<>>
        ELSE IF rest = <<>> THEN <<SubSeq(t, 1, n)>>
        ELSE <<SubSeq(t, 1, n), rest>>

\* sep.join(parts)
RECURSIVE join(_, _)
join(sep, parts) ==
    IF parts = <<>> THEN <<>>
    ELSE IF Len(parts) = 1 THEN parts[1]
    ELSE parts[1] \o sep \o join(sep, Tail(parts))

UpperCase == <<"A","B","C","D","E","F","G","H","I","J","K","L","M",
               "N","O","P","Q","R","S","T","U","V","W","X","Y","Z">>
LowerCase == <<"a","b","c","d","e","f","g","h","i","j","k","l","m",
               "n","o","p","q","r","s","t","u","v","w","x","y","z">>

lower_char(c) ==
    IF \E i \in 1..Len(UpperCase) : UpperCase[i] = c
    THEN LowerCase[CHOOSE i \in 1..Len(UpperCase) : UpperCase[i] = c]
    ELSE c

\* s.lower()
lower(s) == [i \in 1..Len(s) |-> lower_char(s[i])]

\* shlex.split(s): POSIX mode, whitespace_split, comments off.  Whitespace
\* separates tokens, a double-quoted run is taken literally and joins the
\* token around it, an empty pair of quotes gives an empty token.  The result
\* is [ok |-> TRUE, tokens |-> ...], or ok = FALSE for an unterminated quote
\* (ValueError "No closing quotation").
RECURSIVE shlex_scan(_, _, _, _, _)
shlex_scan(s, cur, inword, inquote, acc) ==
    IF s = <<>>
    THEN IF inquote THEN [ok |-> FALSE, tokens |-> <<>>]
         ELSE [ok |-> TRUE, tokens |-> IF inword THEN Append(acc, cur) ELSE acc]
    ELSE LET c == Head(s) IN
         IF inquote
         THEN IF c = "\"" THEN shlex_scan(Tail(s), cur, TRUE, FALSE, acc)
              ELSE shlex_scan(Tail(s), Append(cur, c), TRUE, TRUE, acc)
         ELSE IF c = "\"" THEN shlex_scan(Tail(s), cur, TRUE, TRUE, acc)
         ELSE IF c \in Whitespace
         THEN IF inword THEN shlex_scan(Tail(s), <<>>, FALSE, FALSE, Append(acc, cur))
              ELSE shlex_scan(Tail(s), <<>>, FALSE, FALSE, acc)
         ELSE shlex_scan(Tail(s), Append(cur, c), TRUE, FALSE, acc)

\* shlex.split, tabulated once for the stripped lines of a document
StrippedLines == {strip(l) : l \in Lines}

ShlexTable ==
    [s \in StrippedLines |-> shlex_scan(s, <<>>, FALSE, FALSE, <<>>)]

shlex_split(s) ==
    IF s \in StrippedLines
    THEN ShlexTable[s]
    ELSE shlex_scan(s, <<>>, FALSE, FALSE, <<>>)

\* ------------------------------------------------------------------------
\* Values shared by both files
\* ------------------------------------------------------------------------

\* An optional value: None, or Some(v).
None == <<>>
Some(v) == <<v>>

\* A dict: a function on the set of its keys.
EmptyDict == [k \in {} |-> k]
Put(d, k, v) == [x \in (DOMAIN d) \cup {k} |-> IF x = k THEN v ELSE d[x]]

\* str(n) for the line numbers of a document
Digits == <<"0","1","2","3","4","5","6","7","8","9">>
RECURSIVE str_int(_)
str_int(n) ==
    IF n < 10 THEN <<Digits[n + 1]>>
    ELSE str_int(n \div 10) \o <<Digits[(n % 10) + 1]>>

\* A message is the sequence of its f-string pieces: the literal text with a
\* {} for the interpolated value, and that value.
Piece(lit, arg) == [lit |-> lit, arg |-> arg]
ValueError(msg) == [type |-> "ValueError", msg |-> msg]

\* The outcome of a call on the Circuit: the exception it raised (or None) and
\* the Circuit as the call left it.
Ok(c) == [exc |-> None, circuit |-> c]
Raise(c, e) == [exc |-> Some(e), circuit |-> c]

\* ------------------------------------------------------------------------
\* src/models.py
\* ------------------------------------------------------------------------

\* Node(name): a new object.  Its identity is a number no Node of the
\* registry carries.
Node(nodes, name) ==
    LET ids == {nodes[n].id : n \in DOMAIN nodes}
        top == IF ids = {} THEN 0 ELSE CHOOSE i \in ids : \A j \in ids : j <= i
    IN  [name |-> name, id |-> top + 1]

\* Variant of Component.__init__ that does not store the primary value.
ComponentUnvalued(component_type, name, primary_value) ==
    [component_type |-> component_type,
     name           |-> name,
     primary_value  |-> None,
     properties     |-> EmptyDict,
     connections    |-> EmptyDict]

\* Component(component_type, name, primary_value)
Component(component_type, name, primary_value) ==
    [component_type |-> component_type,
     name           |-> name,
     primary_value  |-> primary_value,
     properties     |-> EmptyDict,
     connections    |-> EmptyDict]

add_property(component, key, value) ==
    [component EXCEPT !.properties = Put(@, key, value)]

add_connection(component, pin_name, node) ==
    [component EXCEPT !.connections = Put(@, pin_name, node)]

\* SubcircuitDefinition(name)
SubcircuitDefinition(name) ==
    [name |-> name, interface |-> <<>>, body_text |-> <<>>]

\* Circuit()
Circuit ==
    [components             |-> EmptyDict,
     nodes                  |-> EmptyDict,
     subcircuit_definitions |-> EmptyDict,
     ground_node_name       |-> None]

\* Python truth of an optional str: None and '' are false.
Truthy(opt) == opt # None /\ opt[1] # <<>>

\* Variant of add_component that omits the name test.
add_component_overwriting(c, component) ==
    Ok([c EXCEPT !.components = Put(@, component.name, component)])

add_component(c, component) ==
    IF component.name \in DOMAIN c.components
    THEN Raise(c, ValueError(<<Piece("Component name '{}' already exists.",
                                     component.name)>>))
    ELSE Ok([c EXCEPT !.components = Put(@, component.name, component)])

\* Variant of declare_node that omits the name test.
declare_node_overwriting(c, node_name) ==
    Ok([c EXCEPT !.nodes = Put(@, node_name, Node(c.nodes, node_name))])

declare_node(c, node_name) ==
    IF node_name \in DOMAIN c.nodes
    THEN Raise(c, ValueError(<<Piece("Node '{}' has already been declared.",
                                     node_name)>>))
    ELSE Ok([c EXCEPT !.nodes = Put(@, node_name, Node(c.nodes, node_name))])

\* Variant of set_ground_node that records the name without declaring the
\* node.
set_ground_node_undeclared(c, node_name) ==
    IF Truthy(c.ground_node_name)
    THEN Raise(c, ValueError(<<Piece("Ground node has already been set.", <<>>)>>))
    ELSE Ok([c EXCEPT !.ground_node_name = Some(node_name)])

set_ground_node(c, node_name) ==
    IF Truthy(c.ground_node_name)
    THEN Raise(c, ValueError(<<Piece("Ground node has already been set.", <<>>)>>))
    ELSE LET r == IF node_name \notin DOMAIN c.nodes
                  THEN declare_node(c, node_name)
                  ELSE Ok(c)
         IN  IF r.exc # None THEN r
             ELSE Ok([r.circuit EXCEPT !.ground_node_name = Some(node_name)])

\* Variant of get_node that makes a Node for an unknown name.
get_node_defaulting(c, node_name) ==
    IF node_name \notin DOMAIN c.nodes
    THEN [exc |-> None, node |-> Some(Node(c.nodes, node_name))]
    ELSE [exc |-> None, node |-> Some(c.nodes[node_name])]

\* get_node: [exc, node]
get_node(c, node_name) ==
    IF node_name \notin DOMAIN c.nodes
    THEN [exc  |-> Some(ValueError(<<Piece(
                      "Undeclared node '{}'. All nodes must be declared before use.",
                      node_name)>>)),
          node |-> None]
    ELSE [exc |-> None, node |-> Some(c.nodes[node_name])]

\* ------------------------------------------------------------------------
\* src/parser.py: module constants and string literals
\* ------------------------------------------------------------------------

BLOCK_END == <<"[","/","s","u","b","c","i","r","c","u","i","t","]">>
BLOCK_START == <<"[","s","u","b","c","i","r","c","u","i","t">>
EXPOSE == <<"e","x","p","o","s","e">>
NODE == <<"n","o","d","e">>
GROUND == <<"g","r","o","u","n","d">>
FROM == <<"f","r","o","m">>
TO == <<"t","o">>

PINS_FROM_TO == [pins |-> <<FROM, TO>>]

COMPONENT_SCHEMA ==
    (<<"r","e","s","i","s","t","o","r">>     :> PINS_FROM_TO) @@
    (<<"c","a","p","a","c","i","t","o","r">> :> PINS_FROM_TO) @@
    (<<"i","n","d","u","c","t","o","r">>     :> PINS_FROM_TO) @@
    (<<"d","i","o","d","e">>                 :> PINS_FROM_TO) @@
    (<<"b","a","t","t","e","r","y">>         :> PINS_FROM_TO) @@
    (<<"a","c","s","o","u","r","c","e">>     :> PINS_FROM_TO) @@
    (<<"s","w","i","t","c","h">>             :> PINS_FROM_TO)

\* Variant of the known-property list that lacks `frequency`.
KNOWN_PROPERTIES_WITHOUT_FREQUENCY ==
    << <<"m","o","d","e","l">>,
       <<"t","o","l","e","r","a","n","c","e">>,
       <<"p","o","w","e","r">>,
       <<"c","o","l","o","r">>,
       <<"s","t","a","t","e">>,
       <<"a","m","p","l","i","t","u","d","e">> >>

KNOWN_PROPERTIES ==
    << <<"m","o","d","e","l">>,
       <<"t","o","l","e","r","a","n","c","e">>,
       <<"p","o","w","e","r">>,
       <<"c","o","l","o","r">>,
       <<"s","t","a","t","e">>,
       <<"a","m","p","l","i","t","u","d","e">>,
       <<"f","r","e","q","u","e","n","c","y">> >>

\* x in a_list
InList(x, list) == \E i \in 1..Len(list) : list[i] = x

\* The exception shlex.split raises on an unterminated quote.
NoClosingQuotation == ValueError(<<Piece("No closing quotation", <<>>)>>)

\* ------------------------------------------------------------------------
\* Parser._parse_subcircuit_block
\* ------------------------------------------------------------------------

\* Variant of the pin-definition loop that keeps the internal name of a
\* `public=internal` mapping (split('=')[1]) instead of the public one.
RECURSIVE expose_pin_defs_internal(_, _)
expose_pin_defs_internal(pin_defs, interface) ==
    IF pin_defs = <<>> THEN [exc |-> None, interface |-> interface]
    ELSE LET pin_def == Head(pin_defs) IN
         IF contains(pin_def, "=")
         THEN LET public_name == strip(split_on(pin_def, "=")[1])
                  internal    == strip(split_on(pin_def, "=")[2])
              IN
              IF public_name = <<>>
              THEN [exc |-> Some(ValueError(<<Piece(
                               "Invalid expose mapping in subcircuit.", <<>>)>>)),
                    interface |-> interface]
              ELSE expose_pin_defs_internal(Tail(pin_defs),
                                            Append(interface, internal))
         ELSE IF pin_def = <<>>
              THEN [exc |-> Some(ValueError(<<Piece(
                               "Invalid expose pin name.", <<>>)>>)),
                    interface |-> interface]
              ELSE expose_pin_defs_internal(Tail(pin_defs),
                                            Append(interface, pin_def))

\* for pin_def in pin_defs: ...   [exc, interface]
RECURSIVE expose_pin_defs(_, _)
expose_pin_defs(pin_defs, interface) ==
    IF pin_defs = <<>> THEN [exc |-> None, interface |-> interface]
    ELSE LET pin_def == Head(pin_defs) IN
         IF contains(pin_def, "=")
         THEN LET public_name == strip(split_on(pin_def, "=")[1]) IN
              IF public_name = <<>>
              THEN [exc |-> Some(ValueError(<<Piece(
                               "Invalid expose mapping in subcircuit.", <<>>)>>)),
                    interface |-> interface]
              ELSE expose_pin_defs(Tail(pin_defs), Append(interface, public_name))
         ELSE IF pin_def = <<>>
              THEN [exc |-> Some(ValueError(<<Piece(
                               "Invalid expose pin name.", <<>>)>>)),
                    interface |-> interface]
              ELSE expose_pin_defs(Tail(pin_defs), Append(interface, pin_def))

\* for line in lines: ...   [exc, interface, body_lines]
RECURSIVE collect_block_lines(_, _, _)
collect_block_lines(lines, interface, body_lines) ==
    IF lines = <<>>
    THEN [exc |-> None, interface |-> interface, body_lines |-> body_lines]
    ELSE LET line == strip(Head(lines)) IN
         IF line = <<>> \/ startswith(line, <<"#">>)
         THEN collect_block_lines(Tail(lines), interface, body_lines)
         ELSE IF startswith(line, EXPOSE)
         THEN LET parts == split_maxsplit1(line) IN
              IF Len(parts) < 2
              THEN [exc |-> Some(ValueError(<<Piece(
                      "Subcircuit 'expose' line must list pins, e.g. 'expose a,b=c'.",
                      <<>>)>>)),
                    interface |-> interface, body_lines |-> body_lines]
              ELSE LET raw      == split_on(parts[2], ",")
                       pin_defs == [i \in 1..Len(raw) |-> strip(raw[i])]
                       r        == expose_pin_defs(pin_defs, interface)
                   IN  IF r.exc # None
                       THEN [exc |-> r.exc, interface |-> r.interface,
                             body_lines |-> body_lines]
                       ELSE collect_block_lines(Tail(lines), r.interface, body_lines)
         ELSE collect_block_lines(Tail(lines), interface, Append(body_lines, line))

\* Variant of _parse_subcircuit_block that omits the empty-interface test.
parse_subcircuit_block_unchecked(name, lines, c) ==
    LET sub_def == SubcircuitDefinition(name)
        r       == collect_block_lines(lines, sub_def.interface, <<>>)
    IN  IF r.exc # None THEN Raise(c, r.exc[1])
        ELSE Ok([c EXCEPT !.subcircuit_definitions =
                    Put(@, name, [sub_def EXCEPT
                                    !.interface = r.interface,
                                    !.body_text = join(<<"\n">>, r.body_lines)])])

\* Variant of _parse_subcircuit_block that treats a name already registered
\* as node and component names are treated.
parse_subcircuit_block_once(name, lines, c) ==
    LET sub_def == SubcircuitDefinition(name)
        r       == collect_block_lines(lines, sub_def.interface, <<>>)
    IN  IF r.exc # None THEN Raise(c, r.exc[1])
        ELSE IF r.interface = <<>>
        THEN Raise(c, ValueError(<<Piece(
                 "Subcircuit '{}' has no 'expose' line defining its interface.",
                 name)>>))
        ELSE IF name \in DOMAIN c.subcircuit_definitions
        THEN Raise(c, ValueError(<<Piece(
                 "Subcircuit '{}' has already been defined.", name)>>))
        ELSE Ok([c EXCEPT !.subcircuit_definitions =
                    Put(@, name, [sub_def EXCEPT
                                    !.interface = r.interface,
                                    !.body_text = join(<<"\n">>, r.body_lines)])])

parse_subcircuit_block(name, lines, c) ==
    LET sub_def == SubcircuitDefinition(name)
        r       == collect_block_lines(lines, sub_def.interface, <<>>)
    IN  IF r.exc # None THEN Raise(c, r.exc[1])
        ELSE IF r.interface = <<>>
        THEN Raise(c, ValueError(<<Piece(
                 "Subcircuit '{}' has no 'expose' line defining its interface.",
                 name)>>))
        ELSE Ok([c EXCEPT !.subcircuit_definitions =
                    Put(@, name, [sub_def EXCEPT
                                    !.interface = r.interface,
                                    !.body_text = join(<<"\n">>, r.body_lines)])])

\* ------------------------------------------------------------------------
\* Parser._parse_component_line
\* ------------------------------------------------------------------------

Fail(component, e) == [exc |-> Some(e), component |-> component]

\* require_tokens(count, context_msg)
Malformed(comp_name, context_msg) ==
    ValueError(<<Piece("Malformed component '{}': ", comp_name),
                 Piece(context_msg, <<>>)>>)

\* Variant of the valid-pin lookup whose default for a type outside the
\* schema is the pin list of the fixed types.
ValidPinsOfDefaulting(comp_type) ==
    IF comp_type \in DOMAIN COMPONENT_SCHEMA
    THEN COMPONENT_SCHEMA[comp_type].pins
    ELSE PINS_FROM_TO.pins

\* valid_pins = COMPONENT_SCHEMA.get(comp_type, {}).get('pins', [])
ValidPinsOf(comp_type) ==
    IF comp_type \in DOMAIN COMPONENT_SCHEMA
    THEN COMPONENT_SCHEMA[comp_type].pins
    ELSE <<>>

\* while tokens: ...   [exc, component]
RECURSIVE consume_tokens(_, _, _)
consume_tokens(tokens, component, c) ==
    IF tokens = <<>> THEN [exc |-> None, component |-> component]
    ELSE
    LET token == Head(tokens)
        rest  == Tail(tokens)
    IN
    IF token = FROM
    THEN IF Len(rest) < 3
         THEN Fail(component, Malformed(component.name,
                      "'from' must be followed by '<node> to <node>'"))
         ELSE
         LET from_node_name == rest[1]
             from_node      == get_node(c, from_node_name)
             next_tok       == rest[2]
             to_node_name   == rest[3]
             to_node        == get_node(c, to_node_name)
         IN
         IF from_node_name = <<>>
         THEN Fail(component, ValueError(<<Piece("'from' missing node name.", <<>>)>>))
         ELSE IF from_node.exc # None
         THEN Fail(component, from_node.exc[1])
         ELSE
         LET with_from == add_connection(component, FROM, from_node.node[1]) IN
         IF next_tok # TO
         THEN Fail(with_from, ValueError(<<Piece(
                      "'from' clause must be followed by 'to'.", <<>>)>>))
         ELSE IF to_node_name = <<>>
         THEN Fail(with_from, ValueError(<<Piece("'to' missing node name.", <<>>)>>))
         ELSE IF to_node.exc # None
         THEN Fail(with_from, to_node.exc[1])
         ELSE consume_tokens(SubSeq(rest, 4, Len(rest)),
                             add_connection(with_from, TO, to_node.node[1]), c)
    ELSE IF contains(token, "=")
    THEN LET kv         == split_once(token, "=")
             key        == kv[1]
             value      == kv[2]
             valid_pins == ValidPinsOf(component.component_type)
             pin_node   == get_node(c, value)
         IN
         IF key = <<>>
         THEN Fail(component, ValueError(<<Piece("Invalid key in token '{}'.", token)>>))
         ELSE IF value = <<>>
         THEN Fail(component, ValueError(<<Piece("Invalid value in token '{}'.", token)>>))
         ELSE IF InList(key, valid_pins)
         THEN IF pin_node.exc # None
              THEN Fail(component, pin_node.exc[1])
              ELSE consume_tokens(rest,
                       add_connection(component, key, pin_node.node[1]), c)
         ELSE IF InList(key, KNOWN_PROPERTIES)
         THEN consume_tokens(rest, add_property(component, key, value), c)
         ELSE Fail(component, ValueError(
                  <<Piece("Invalid pin or property '{}' ", key),
                    Piece("for component type '{}'", component.component_type)>>))
    ELSE Fail(component, ValueError(
             <<Piece("Unexpected token '{}' ", token),
               Piece("in component '{}'.", component.name)>>))

\* Variant of the Shorted Component Check that collects the pin names instead
\* of the node identities.
ShortedByPin(component) ==
    LET con_nodes  == component.connections
        unique_ids == DOMAIN con_nodes
    IN  Cardinality(DOMAIN con_nodes) > 1 /\ Cardinality(unique_ids) = 1

\* Shorted Component Check: more than one connection, one node identity.
Shorted(component) ==
    LET con_nodes  == component.connections
        unique_ids == {con_nodes[p].id : p \in DOMAIN con_nodes}
    IN  Cardinality(DOMAIN con_nodes) > 1 /\ Cardinality(unique_ids) = 1

parse_component_line(line, c) ==
    LET sp == shlex_split(line) IN
    IF ~sp.ok THEN Raise(c, NoClosingQuotation)
    ELSE IF Len(sp.tokens) < 2
    THEN Raise(c, ValueError(<<Piece(
             "Component line must include at least a type and a name.", <<>>)>>))
    ELSE
    LET comp_type     == lower(sp.tokens[1])
        comp_name     == sp.tokens[2]
        after_name    == SubSeq(sp.tokens, 3, Len(sp.tokens))
        has_value     == /\ after_name # <<>>
                         /\ ~contains(after_name[1], "=")
                         /\ after_name[1] \notin {FROM, TO}
        primary_value == IF has_value THEN Some(after_name[1]) ELSE None
        tokens        == IF has_value THEN Tail(after_name) ELSE after_name
        r             == consume_tokens(tokens,
                             Component(comp_type, comp_name, primary_value), c)
    IN
    IF r.exc # None THEN Raise(c, r.exc[1])
    ELSE IF Shorted(r.component)
    THEN Raise(c, ValueError(<<Piece(
             "Component '{}' is shorted (all pins connect to the same node)",
             r.component.name)>>))
    ELSE add_component(c, r.component)

\* ------------------------------------------------------------------------
\* Parser.parse
\* ------------------------------------------------------------------------

VARIABLES
    circuit,                  \* the Circuit under construction
    in_subcircuit_block,      \* driver state: FALSE = Normal
    current_subcircuit_name,  \* None, or Some(name) of the open block
    subcircuit_lines,         \* the buffer of the open block
    line_num,                 \* number of the line last read (0 before the loop)
    line,                     \* the line last read, stripped
    pc,                       \* "loop", "returned" or "raised"
    e,                        \* the exception caught by the loop's except clause
    raised                    \* the exception that leaves parse()

vars == <<circuit, in_subcircuit_block, current_subcircuit_name,
          subcircuit_lines, line_num, line, pc, e, raised>>

Init ==
    /\ circuit = Circuit
    /\ in_subcircuit_block = FALSE
    /\ current_subcircuit_name = None
    /\ subcircuit_lines = <<>>
    /\ line_num = 0
    /\ line = <<>>
    /\ pc = "loop"
    /\ e = None
    /\ raised = None

\* raise type(e)(f"On line {line_num}: {e}")
Wrap(n, exc) ==
    [type |-> exc.type,
     msg  |-> <<Piece("On line {}: ", str_int(n))>> \o exc.msg]

\* lines = text.strip().split('\n'); for line_num, line in enumerate(lines, 1):
\* the next line l of the document is read and stripped.  text.strip() leaves
\* no whitespace before the first line and none after the last, and an empty
\* text is the one-line document [''].
\* A document has at most max lines.
ReadLineUpTo(l, max) ==
    /\ pc = "loop"
    /\ line_num < max
    /\ line_num = 0 => lstrip_chars(l, Whitespace) = l
    /\ line_num = 1 => line # <<>>
    /\ (strip(l) = <<>> /\ line_num > 0) => line_num + 1 < max
    /\ line_num' = line_num + 1
    /\ line' = strip(l)

ReadLine(l) == ReadLineUpTo(l, MaxLines)

\* The statement raised exc inside the try block.
Except(exc) ==
    /\ e' = Some(exc)
    /\ raised' = Some(Wrap(line_num', exc))
    /\ pc' = "raised"

\* The iteration ended (continue, or the end of the loop body).
Continue ==
    /\ pc' = "loop"
    /\ UNCHANGED <<e, raised>>

\* if line.startswith('[/subcircuit]'):   for the documents of at most max
\* lines drawn from ls
BlockEndOf(ls, max) ==
    /\ pc = "loop"
    /\ \E l \in ls :
       /\ ReadLineUpTo(l, max)
       /\ startswith(line', BLOCK_END)
       /\ IF ~in_subcircuit_block
          THEN /\ Except(ValueError(<<Piece(
                      "Found end of block '[/subcircuit]' without a start.", <<>>)>>))
               /\ UNCHANGED <<circuit, in_subcircuit_block,
                              current_subcircuit_name, subcircuit_lines>>
          ELSE LET r == parse_subcircuit_block(current_subcircuit_name[1],
                                               subcircuit_lines, circuit)
               IN  /\ circuit' = r.circuit
                   /\ IF r.exc # None
                      THEN /\ Except(r.exc[1])
                           /\ UNCHANGED <<in_subcircuit_block,
                                          current_subcircuit_name, subcircuit_lines>>
                      ELSE /\ in_subcircuit_block' = FALSE
                           /\ current_subcircuit_name' = None
                           /\ subcircuit_lines' = <<>>
                           /\ Continue

BlockEnd == BlockEndOf(Lines, MaxLines)

\* Variant of the block-start branch that omits the nesting test.
BlockStartNesting ==
    \E l \in Lines :
    /\ pc = "loop"
    /\ line_num < MaxLines
    /\ line_num' = line_num + 1
    /\ line' = strip(l)
    /\ ~startswith(line', BLOCK_END)
    /\ startswith(line', BLOCK_START)
    /\ Len(split_maxsplit1(line')) >= 2
    /\ in_subcircuit_block' = TRUE
    /\ current_subcircuit_name' =
          Some(strip_chars(split_maxsplit1(line')[2], {" ", "]"}))
    /\ subcircuit_lines' = <<>>
    /\ pc' = "loop"
    /\ UNCHANGED <<circuit, e, raised>>

\* if line.startswith('[subcircuit'):   for the documents of at most max
\* lines drawn from ls
BlockStartOf(ls, max) ==
    /\ pc = "loop"
    /\ \E l \in ls :
       /\ ReadLineUpTo(l, max)
       /\ ~startswith(line', BLOCK_END)
       /\ startswith(line', BLOCK_START)
       /\ UNCHANGED circuit
       /\ IF in_subcircuit_block
          THEN /\ Except(ValueError(<<Piece("Cannot nest subcircuits.", <<>>)>>))
               /\ UNCHANGED <<in_subcircuit_block, current_subcircuit_name,
                              subcircuit_lines>>
          ELSE LET parts == split_maxsplit1(line') IN
               IF Len(parts) < 2
               THEN /\ Except(ValueError(<<Piece(
                        "Subcircuit declaration must include a name, e.g. [subcircuit NAME].",
                        <<>>)>>))
                    /\ UNCHANGED <<in_subcircuit_block, current_subcircuit_name,
                                   subcircuit_lines>>
               ELSE /\ in_subcircuit_block' = TRUE
                    /\ current_subcircuit_name' = Some(strip_chars(parts[2], {" ", "]"}))
                    /\ subcircuit_lines' = <<>>
                    /\ Continue

BlockStart == BlockStartOf(Lines, MaxLines)

\* Neither marker matched.
NoMarkerUpTo(l, max) ==
    /\ ReadLineUpTo(l, max)
    /\ ~startswith(line', BLOCK_END)
    /\ ~startswith(line', BLOCK_START)

NoMarker(l) == NoMarkerUpTo(l, MaxLines)

\* Variant of the in-block branch placed after the blank-and-comment test:
\* blank lines and comments of a block are not buffered.
BufferLineSkipping ==
    /\ pc = "loop"
    /\ in_subcircuit_block
    /\ Len(subcircuit_lines) < MaxBlockLines
    /\ \E l \in BodyLines :
       /\ NoMarker(l)
       /\ subcircuit_lines' =
             IF line' = <<>> \/ startswith(line', <<"#">>)
             THEN subcircuit_lines
             ELSE Append(subcircuit_lines, line')
       /\ Continue
       /\ UNCHANGED <<circuit, in_subcircuit_block, current_subcircuit_name>>

\* if in_subcircuit_block: subcircuit_lines.append(line)   for the documents
\* of at most max lines whose blocks carry lines drawn from ls
BufferLineOf(ls, max) ==
    /\ pc = "loop"
    /\ in_subcircuit_block
    /\ Len(subcircuit_lines) < MaxBlockLines
    /\ \E l \in ls :
       /\ NoMarkerUpTo(l, max)
       /\ subcircuit_lines' = Append(subcircuit_lines, line')
       /\ Continue
       /\ UNCHANGED <<circuit, in_subcircuit_block, current_subcircuit_name>>

BufferLine == BufferLineOf(BodyLines, MaxLines)

\* Regular line handling is reached.
Regular(l) ==
    /\ NoMarker(l)
    /\ ~in_subcircuit_block
    /\ UNCHANGED <<in_subcircuit_block, current_subcircuit_name, subcircuit_lines>>

\* The line is not blank, no comment, and shlex.split gave tokens.
Tokenized(l) ==
    /\ Regular(l)
    /\ ~(line' = <<>> \/ startswith(line', <<"#">>))
    /\ shlex_split(line').ok
    /\ shlex_split(line').tokens # <<>>

\* if not line or line.startswith('#'): continue ... if not tokens: continue
SkipLine ==
    /\ pc = "loop"
    /\ ~in_subcircuit_block
    /\ \E l \in Lines :
       /\ Regular(l)
       /\ \/ line' = <<>>
          \/ startswith(line', <<"#">>)
          \/ shlex_split(line').ok /\ shlex_split(line').tokens = <<>>
       /\ Continue
       /\ UNCHANGED circuit

\* tokens = shlex.split(line) raises
TokenizeError ==
    /\ pc = "loop"
    /\ ~in_subcircuit_block
    /\ \E l \in Lines :
       /\ Regular(l)
       /\ ~(line' = <<>> \/ startswith(line', <<"#">>))
       /\ ~shlex_split(line').ok
       /\ Except(NoClosingQuotation)
       /\ UNCHANGED circuit

\* for name in node_names: ...   the outcome of the declarations
RECURSIVE declare_names(_, _)
declare_names(node_names, c) ==
    IF node_names = <<>> THEN Ok(c)
    ELSE LET name == strip(Head(node_names)) IN
         IF name = <<>> THEN declare_names(Tail(node_names), c)
         ELSE LET r == declare_node(c, name) IN
              IF r.exc # None THEN r
              ELSE declare_names(Tail(node_names), r.circuit)

\* The end of a dispatched command: its outcome becomes the Circuit, and its
\* exception, if any, is caught.
Finish(r) ==
    /\ circuit' = r.circuit
    /\ IF r.exc # None THEN Except(r.exc[1]) ELSE Continue

\* if command == 'node':
NodeLine ==
    /\ pc = "loop"
    /\ ~in_subcircuit_block
    /\ \E l \in Lines :
       /\ Tokenized(l)
       /\ LET tokens  == shlex_split(line').tokens
              command == lower(tokens[1])
          IN  /\ command = NODE
              /\ IF Len(tokens) < 2
                 THEN Finish(Raise(circuit, ValueError(<<Piece(
                          "'node' requires a comma-separated list of node names.",
                          <<>>)>>)))
                 ELSE Finish(declare_names(
                          split_on(join(<<" ">>, Tail(tokens)), ","), circuit))

\* elif command == 'ground':
GroundLine ==
    /\ pc = "loop"
    /\ ~in_subcircuit_block
    /\ \E l \in Lines :
       /\ Tokenized(l)
       /\ LET tokens  == shlex_split(line').tokens
              command == lower(tokens[1])
          IN  /\ command # NODE
              /\ command = GROUND
              /\ IF Len(tokens) # 2
                 THEN Finish(Raise(circuit, ValueError(<<Piece(
                          "'ground' declaration must have exactly one node name.",
                          <<>>)>>)))
                 ELSE Finish(set_ground_node(circuit, tokens[2]))

\* Variant of the dispatch test that takes the registry itself as the second
\* operand: true as soon as any subcircuit is registered.
IsComponentTypeAnyRegistered(command, c) ==
    \/ command \in DOMAIN COMPONENT_SCHEMA
    \/ DOMAIN c.subcircuit_definitions # {}

\* command in COMPONENT_SCHEMA or command in circuit.subcircuit_definitions
IsComponentType(command, c) ==
    \/ command \in DOMAIN COMPONENT_SCHEMA
    \/ command \in DOMAIN c.subcircuit_definitions

\* elif command in COMPONENT_SCHEMA or command in circuit.subcircuit_definitions:
ComponentLine ==
    /\ pc = "loop"
    /\ ~in_subcircuit_block
    /\ \E l \in Lines :
       /\ Tokenized(l)
       /\ LET command == lower(shlex_split(line').tokens[1]) IN
          /\ command \notin {NODE, GROUND}
          /\ IsComponentType(command, circuit)
          /\ Finish(parse_component_line(line', circuit))

\* else: raise ValueError(f"Unknown command or component type '{command}'")
UnknownCommand ==
    /\ pc = "loop"
    /\ ~in_subcircuit_block
    /\ \E l \in Lines :
       /\ Tokenized(l)
       /\ LET command == lower(shlex_split(line').tokens[1]) IN
          /\ command \notin {NODE, GROUND}
          /\ ~IsComponentType(command, circuit)
          /\ Finish(Raise(circuit, ValueError(<<Piece(
                 "Unknown command or component type '{}'", command)>>)))

\* Variant of the end of parse() that omits the open-block test.
EndOfInputReturning ==
    /\ pc = "loop"
    /\ line_num >= 1
    /\ line # <<>> \/ line_num = 1
    /\ pc' = "returned"
    /\ UNCHANGED <<circuit, in_subcircuit_block, current_subcircuit_name,
                   subcircuit_lines, line_num, line, e, raised>>

\* After the loop: if in_subcircuit_block: raise ...; return circuit
EndOfInput ==
    /\ pc = "loop"
    /\ line_num >= 1
    /\ line # <<>> \/ line_num = 1
    /\ IF in_subcircuit_block
       THEN /\ raised' = Some(ValueError(<<Piece(
                   "Subcircuit '{}' not closed with [/subcircuit].",
                   current_subcircuit_name[1])>>))
            /\ pc' = "raised"
       ELSE /\ pc' = "returned"
            /\ UNCHANGED raised
    /\ UNCHANGED <<circuit, in_subcircuit_block, current_subcircuit_name,
                   subcircuit_lines, line_num, line, e>>

Next ==
    \/ BlockEnd
    \/ BlockStart
    \/ BufferLine
    \/ SkipLine
    \/ TokenizeError
    \/ NodeLine
    \/ GroundLine
    \/ ComponentLine
    \/ UnknownCommand
    \/ EndOfInput

Spec == Init /\ [][Next]_vars

\* ------------------------------------------------------------------------
\* Documents of subcircuit blocks
\* ------------------------------------------------------------------------

\* Parser.parse on the documents that consist of subcircuit blocks only; they
\* may be one line longer than the documents of Spec, long enough for two
\* blocks.
MaxDefinitionLines == 6

DefinitionMarkers == {L_start_amp, L_start_Amp, L_end}

DefinitionBodyLines == {L_expose_a_b, L_expose_map, L_res_R1}

DefinitionBlockEnd == BlockEndOf(DefinitionMarkers, MaxDefinitionLines)

DefinitionBlockStart == BlockStartOf(DefinitionMarkers, MaxDefinitionLines)

DefinitionBufferLine == BufferLineOf(DefinitionBodyLines, MaxDefinitionLines)

NextDefinitions ==
    \/ DefinitionBlockEnd
    \/ DefinitionBlockStart
    \/ DefinitionBufferLine
    \/ EndOfInput

SpecDefinitions == Init /\ [][NextDefinitions]_vars

\* ------------------------------------------------------------------------
\* Vocabulary of the properties
\* ------------------------------------------------------------------------

\* This step read a line of the document.
ReadsLine == pc = "loop" /\ line_num' = line_num + 1

\* This step left the loop at the end of the document.
EndsDocument == pc = "loop" /\ line_num' = line_num /\ pc' # "loop"

\* The line read is handled as a regular line and has a first token.
ReadsCommand ==
    /\ ReadsLine
    /\ ~in_subcircuit_block
    /\ ~startswith(line', BLOCK_END)
    /\ ~startswith(line', BLOCK_START)
    /\ line' # <<>>
    /\ ~startswith(line', <<"#">>)
    /\ shlex_split(line').ok
    /\ shlex_split(line').tokens # <<>>

\* The tokens of the line read, and its first token lower-cased.
TokensRead == shlex_split(line').tokens
CommandRead == lower(TokensRead[1])

\* The line read is dispatched to the Component-Line Parser.
ReadsComponent ==
    /\ ReadsCommand
    /\ CommandRead \notin {NODE, GROUND}
    /\ \/ CommandRead \in DOMAIN COMPONENT_SCHEMA
       \/ CommandRead \in DOMAIN circuit.subcircuit_definitions

\* The step failed: an exception left parse(); first piece of the message of
\* the exception caught on the line, and its interpolated value.
Failed == pc' = "raised"
CaughtText == e'[1].msg[1].lit
CaughtArg == e'[1].msg[1].arg

\* The tokens of a component line after type, name and optional primary value.
ClauseTokens(tokens) ==
    LET after == SubSeq(tokens, 3, Len(tokens)) IN
    IF after # <<>> /\ ~contains(after[1], "=") /\ after[1] \notin {FROM, TO}
    THEN Tail(after)
    ELSE after

\* Whether clause tokens follow the grammar
\*     ( from <node> to <node> | <pin>=<node> | <property>=<value> )*
\* with non-empty names, and the node names they refer to, in order.
RECURSIVE ClauseRefs(_, _)
ClauseRefs(tokens, pins) ==
    IF tokens = <<>> THEN [ok |-> TRUE, refs |-> <<>>]
    ELSE IF Head(tokens) = FROM
    THEN IF Len(tokens) >= 4 /\ tokens[2] # <<>> /\ tokens[3] = TO /\ tokens[4] # <<>>
         THEN LET r == ClauseRefs(SubSeq(tokens, 5, Len(tokens)), pins) IN
              [ok |-> r.ok, refs |-> <<tokens[2], tokens[4]>> \o r.refs]
         ELSE [ok |-> FALSE, refs |-> <<>>]
    ELSE IF contains(Head(tokens), "=")
    THEN LET key   == SubSeq(Head(tokens), 1, find(Head(tokens), "=") - 1)
             value == SubSeq(Head(tokens), find(Head(tokens), "=") + 1,
                             Len(Head(tokens)))
             r     == ClauseRefs(Tail(tokens), pins)
         IN  IF key = <<>> \/ value = <<>> THEN [ok |-> FALSE, refs |-> <<>>]
             ELSE IF key \in pins THEN [ok |-> r.ok, refs |-> <<value>> \o r.refs]
             ELSE IF InList(key, KNOWN_PROPERTIES) THEN r
             ELSE [ok |-> FALSE, refs |-> <<>>]
    ELSE [ok |-> FALSE, refs |-> <<>>]

\* The node references of the component line read: a fixed type has the pins
\* from and to, a subcircuit type has none.
RefsRead ==
    ClauseRefs(ClauseTokens(TokensRead),
               IF CommandRead \in DOMAIN COMPONENT_SCHEMA THEN {FROM, TO} ELSE {})

\* Index of the first reference that names no declared node (0 when none).
FirstUndeclared(refs, nodes) ==
    IF \E i \in 1..Len(refs) : refs[i] \notin DOMAIN nodes
    THEN CHOOSE i \in 1..Len(refs) :
            /\ refs[i] \notin DOMAIN nodes
            /\ \A j \in 1..(i - 1) : refs[j] \in DOMAIN nodes
    ELSE 0

\* ------------------------------------------------------------------------
\* Properties
\* ------------------------------------------------------------------------

\* C1: once a ground line has been processed successfully, every later
\* `ground <name2>` line read in Normal state fails, and the ground
\* designation, once set, never changes.
C1_GroundSetOnce ==
    [][circuit.ground_node_name # None =>
          /\ circuit'.ground_node_name = circuit.ground_node_name
          /\ (ReadsCommand /\ CommandRead = GROUND /\ Len(TokensRead) = 2) => Failed
      ]_vars

\* C2: every connected pin of every registered component is a Node of the
\* node registry; a component line with a reference to an undeclared node
\* fails and adds no component, and when the line follows the grammar of a
\* component line the failure is the undeclared-node error for the first
\* such reference.
PinsDeclared(c) ==
    \A n \in DOMAIN c.components :
        \A p \in DOMAIN c.components[n].connections :
            LET node == c.components[n].connections[p] IN
            /\ node.name \in DOMAIN c.nodes
            /\ c.nodes[node.name] = node

C2_UndeclaredNodeRejected ==
    [][/\ PinsDeclared(circuit')
       /\ (ReadsComponent /\ RefsRead.ok
             /\ FirstUndeclared(RefsRead.refs, circuit.nodes) # 0)
          => /\ Failed
             /\ circuit'.components = circuit.components
             /\ CaughtText =
                  "Undeclared node '{}'. All nodes must be declared before use."
             /\ CaughtArg =
                  RefsRead.refs[FirstUndeclared(RefsRead.refs, circuit.nodes)]
      ]_vars

\* C2 witness: with a and b declared and R1 registered on them, the line
\* `resistor R2 from a to c` failed on the undeclared c.
C2_Witness ==
    /\ pc = "raised"
    /\ line = L_res_R2_undecl
    /\ <<"a">> \in DOMAIN circuit.nodes
    /\ <<"R","1">> \in DOMAIN circuit.components
    /\ e # None
    /\ e[1].msg[1].arg = <<"c">>

\* C3: every failure parse() signals carries "On line N: " for the line N
\* where it was detected, followed by the original message unchanged.
C3_FailureCarriesLine ==
    pc = "raised" =>
        /\ raised[1].msg[1] = Piece("On line {}: ", str_int(line_num))
        /\ e # None
        /\ Tail(raised[1].msg) = e[1].msg

\* C4: a Node of the registry is never replaced or removed, and a `node`
\* line that names a node already in the registry, or names one node twice,
\* fails with the duplicate-node error for the first such name.
NamesRead ==
    LET raw == split_on(join(<<" ">>, Tail(TokensRead)), ",") IN
    SelectSeq([i \in 1..Len(raw) |-> strip(raw[i])], LAMBDA n : n # <<>>)

FirstDuplicate(names, nodes) ==
    LET dup(i) == names[i] \in DOMAIN nodes
                  \/ \E j \in 1..(i - 1) : names[j] = names[i]
    IN  IF \E i \in 1..Len(names) : dup(i)
        THEN CHOOSE i \in 1..Len(names) : dup(i) /\ \A j \in 1..(i - 1) : ~dup(j)
        ELSE 0

C4_NodeDeclaredOnce ==
    [][/\ \A n \in DOMAIN circuit.nodes :
             n \in DOMAIN circuit'.nodes /\ circuit'.nodes[n] = circuit.nodes[n]
       /\ (ReadsCommand /\ CommandRead = NODE /\ Len(TokensRead) >= 2
             /\ FirstDuplicate(NamesRead, circuit.nodes) # 0)
          => /\ Failed
             /\ CaughtText = "Node '{}' has already been declared."
             /\ CaughtArg = NamesRead[FirstDuplicate(NamesRead, circuit.nodes)]
      ]_vars

\* C4 witness: `ground a` auto-declared a, and the later line `Node a` failed
\* as a duplicate.
C4_Witness ==
    /\ pc = "raised"
    /\ line = L_node_a
    /\ circuit.ground_node_name = Some(<<"a">>)
    /\ e # None
    /\ e[1].msg[1] = Piece("Node '{}' has already been declared.", <<"a">>)

\* C5 as stated: a component line whose name is that of a registered
\* component fails with the duplicate-component error, whatever its type,
\* value and connections, and the registered component stays unchanged.
C5_DuplicateAlwaysReported ==
    [][(ReadsComponent /\ Len(TokensRead) >= 2
          /\ TokensRead[2] \in DOMAIN circuit.components)
       => /\ Failed
          /\ CaughtText = "Component name '{}' already exists."
          /\ circuit'.components = circuit.components
      ]_vars

\* C5 amended: such a line fails and leaves the registered components
\* unchanged; the failure is the duplicate-component error when the line
\* passes every other check, that is when it would have been accepted had
\* the name been unused, and the error of that other check otherwise.
AcceptedIfFresh ==
    parse_component_line(line', [circuit EXCEPT !.components = EmptyDict]).exc = None

C5_DuplicateComponentRejected ==
    [][(ReadsComponent /\ Len(TokensRead) >= 2
          /\ TokensRead[2] \in DOMAIN circuit.components)
       => /\ Failed
          /\ circuit'.components = circuit.components
          /\ AcceptedIfFresh <=>
               (/\ CaughtText = "Component name '{}' already exists."
                /\ CaughtArg = TokensRead[2])
      ]_vars

\* C5 witness: R1 is registered as a resistor and the line
\* `capacitor R1 from b to a` failed as a duplicate.
C5_Witness ==
    /\ pc = "raised"
    /\ line = L_cap_R1
    /\ <<"R","1">> \in DOMAIN circuit.components
    /\ circuit.components[<<"R","1">>].component_type
          = <<"r","e","s","i","s","t","o","r">>
    /\ e # None
    /\ e[1].msg[1] = Piece("Component name '{}' already exists.", <<"R","1">>)

\* C6: after a block named S was closed, a Normal-state line `S <name> from
\* <a> to <b>` with an unused component name and two distinct declared nodes
\* is accepted and registers a component of type S, for every S, whatever
\* its letter case.
C6_SubcircuitTypeAccepted ==
    [][(/\ ReadsCommand
        /\ Len(TokensRead) = 6
        /\ TokensRead[1] \in DOMAIN circuit.subcircuit_definitions
        /\ lower(TokensRead[1]) \notin {NODE, GROUND}
        /\ TokensRead[2] \notin DOMAIN circuit.components
        /\ TokensRead[3] = FROM
        /\ TokensRead[5] = TO
        /\ TokensRead[4] \in DOMAIN circuit.nodes
        /\ TokensRead[6] \in DOMAIN circuit.nodes
        /\ TokensRead[4] # TokensRead[6])
       => /\ ~Failed
          /\ TokensRead[2] \in DOMAIN circuit'.components
          /\ lower(circuit'.components[TokensRead[2]].component_type)
                = lower(TokensRead[1])
      ]_vars

\* C7: a Normal-state line whose first token, lower-cased, is neither node,
\* ground, a fixed component type nor the name of a subcircuit definition
\* registered by an earlier line fails as an unknown command or component
\* type and leaves the Circuit unchanged.
C7_UnknownCommandRejected ==
    [][(/\ ReadsCommand
        /\ CommandRead \notin {NODE, GROUND}
        /\ CommandRead \notin DOMAIN COMPONENT_SCHEMA
        /\ CommandRead \notin DOMAIN circuit.subcircuit_definitions)
       => /\ Failed
          /\ CaughtText = "Unknown command or component type '{}'"
          /\ CaughtArg = CommandRead
          /\ circuit' = circuit
      ]_vars

\* C7 witness: `amp X1 from a to b` was read with a and b declared and no
\* subcircuit amp registered, and failed.
C7_Witness ==
    /\ pc = "raised"
    /\ line = L_amp_X1
    /\ {<<"a">>, <<"b">>} \subseteq DOMAIN circuit.nodes
    /\ <<"a","m","p">> \notin DOMAIN circuit.subcircuit_definitions
    /\ e # None
    /\ e[1].msg[1] = Piece("Unknown command or component type '{}'", <<"a","m","p">>)

\* C8: parse() returns only in state Normal; when the document ends inside
\* a block, parse fails with the unterminated-block error naming the open
\* block, whatever was buffered, and that block registers no definition.
C8_UnterminatedBlockFails ==
    [][/\ pc' = "returned" => ~in_subcircuit_block'
       /\ (EndsDocument /\ in_subcircuit_block)
          => /\ Failed
             /\ raised'[1].msg = <<Piece(
                    "Subcircuit '{}' not closed with [/subcircuit].",
                    current_subcircuit_name[1])>>
             /\ circuit' = circuit
      ]_vars

\* C8 witness: the document ended inside the block amp with an expose line
\* buffered, and parse failed.
C8_Witness ==
    /\ pc = "raised"
    /\ e = None
    /\ in_subcircuit_block
    /\ current_subcircuit_name = Some(<<"a","m","p">>)
    /\ subcircuit_lines = <<L_expose_a_b>>

\* C9: inside a block, a line that starts with the block-start marker fails
\* at that line as nesting; it is not buffered and the open block stays the
\* one it was.  No buffered line is a block-start marker.
C9_NestingRejected ==
    [][/\ \A i \in 1..Len(subcircuit_lines') :
             ~startswith(subcircuit_lines'[i], BLOCK_START)
       /\ (ReadsLine /\ in_subcircuit_block /\ startswith(line', BLOCK_START))
          => /\ Failed
             /\ e'[1].msg = <<Piece("Cannot nest subcircuits.", <<>>)>>
             /\ raised'[1].msg[1] = Piece("On line {}: ", str_int(line_num + 1))
             /\ subcircuit_lines' = subcircuit_lines
             /\ current_subcircuit_name' = current_subcircuit_name
             /\ circuit' = circuit
      ]_vars

\* C9 witness: inside the block amp, with a line buffered, `[subcircuit Amp]`
\* was read and parse failed.
C9_Witness ==
    /\ pc = "raised"
    /\ line = L_start_Amp
    /\ in_subcircuit_block
    /\ current_subcircuit_name = Some(<<"a","m","p">>)
    /\ Len(subcircuit_lines) = 1

\* C10: every registered SubcircuitDefinition has a non-empty interface of
\* non-empty names; closing a block that has no expose line, an expose line
\* without argument or a pin definition with an empty public name fails and
\* registers nothing.
InterfacesNonEmpty(c) ==
    \A s \in DOMAIN c.subcircuit_definitions :
        LET interface == c.subcircuit_definitions[s].interface IN
        /\ interface # <<>>
        /\ \A i \in 1..Len(interface) : interface[i] # <<>>

IsExposeLine(l) == startswith(strip(l), EXPOSE)

\* The pin definitions of an expose line.
PinDefsOf(l) ==
    LET parts == split_maxsplit1(strip(l))
        raw   == split_on(parts[2], ",")
    IN  [i \in 1..Len(raw) |-> strip(raw[i])]

NoInterface(lines) ==
    \/ \A i \in 1..Len(lines) : ~IsExposeLine(lines[i])
    \/ \E i \in 1..Len(lines) :
          /\ IsExposeLine(lines[i])
          /\ \/ Len(split_maxsplit1(strip(lines[i]))) < 2
             \/ \E k \in 1..Len(PinDefsOf(lines[i])) :
                   LET d == PinDefsOf(lines[i])[k] IN
                   d = <<>> \/ strip(split_on(d, "=")[1]) = <<>>

C10_InterfaceNonEmpty ==
    [][/\ InterfacesNonEmpty(circuit')
       /\ (ReadsLine /\ in_subcircuit_block /\ startswith(line', BLOCK_END)
             /\ NoInterface(subcircuit_lines))
          => /\ Failed
             /\ circuit'.subcircuit_definitions = circuit.subcircuit_definitions
      ]_vars

\* C10 witness: amp is registered, and closing a second block that has no
\* expose line failed.
C10_Witness ==
    /\ pc = "raised"
    /\ <<"a","m","p">> \in DOMAIN circuit.subcircuit_definitions
    /\ in_subcircuit_block
    /\ subcircuit_lines = <<>>
    /\ line = L_end
    /\ e # None
    /\ e[1].msg[1].lit
          = "Subcircuit '{}' has no 'expose' line defining its interface."

\* The public name of a pin definition: the name itself, or what stands before
\* the first `=`.
PublicName(d) == IF contains(d, "=") THEN strip(split_on(d, "=")[1]) ELSE d

\* The public names of the expose lines of a block, line by line and left to
\* right.
RECURSIVE PublicNames(_)
PublicNames(lines) ==
    IF lines = <<>> THEN <<>>
    ELSE IF IsExposeLine(Head(lines))
    THEN [k \in 1..Len(PinDefsOf(Head(lines))) |->
             PublicName(PinDefsOf(Head(lines))[k])] \o PublicNames(Tail(lines))
    ELSE PublicNames(Tail(lines))

\* The step closed the open block successfully.
ClosesBlock ==
    /\ ReadsLine
    /\ in_subcircuit_block
    /\ startswith(line', BLOCK_END)
    /\ ~Failed

\* C11: when a block is closed successfully, the interface of the definition
\* registered under the block's name is the sequence of the public pin names
\* of all its expose lines, in line order and left to right within a line: a
\* bare pin gives its name, `public=internal` gives only `public`.
C11_InterfaceInOrder ==
    [][ClosesBlock =>
          LET name == current_subcircuit_name[1] IN
          /\ name \in DOMAIN circuit'.subcircuit_definitions
          /\ circuit'.subcircuit_definitions[name].interface
                = PublicNames(subcircuit_lines)
      ]_vars

\* C11 witness: the block amp with the lines `expose a,b` and `expose p=q` was
\* closed and registered the interface a, b, p.
C11_Witness ==
    /\ pc = "loop"
    /\ ~in_subcircuit_block
    /\ line = L_end
    /\ <<"a","m","p">> \in DOMAIN circuit.subcircuit_definitions
    /\ circuit.subcircuit_definitions[<<"a","m","p">>].interface
          = << <<"a">>, <<"b">>, <<"p">> >>

\* The pins a grammatical clause list connects, each with the name of the node
\* it names last.
RECURSIVE ClausePins(_, _, _)
ClausePins(tokens, pins, acc) ==
    IF tokens = <<>> THEN acc
    ELSE IF Head(tokens) = FROM
    THEN IF Len(tokens) < 4 THEN acc
         ELSE ClausePins(SubSeq(tokens, 5, Len(tokens)), pins,
                         Put(Put(acc, FROM, tokens[2]), TO, tokens[4]))
    ELSE LET key   == SubSeq(Head(tokens), 1, find(Head(tokens), "=") - 1)
             value == SubSeq(Head(tokens), find(Head(tokens), "=") + 1,
                             Len(Head(tokens)))
         IN  ClausePins(Tail(tokens), pins,
                        IF key \in pins THEN Put(acc, key, value) ELSE acc)

\* The connections of the component line read, by node name.
PinsRead ==
    ClausePins(ClauseTokens(TokensRead),
               IF CommandRead \in DOMAIN COMPONENT_SCHEMA THEN {FROM, TO} ELSE {},
               EmptyDict)

\* The component line read follows the grammar and names declared nodes only.
ReadsConnectedComponent ==
    /\ ReadsComponent
    /\ Len(TokensRead) >= 2
    /\ RefsRead.ok
    /\ FirstUndeclared(RefsRead.refs, circuit.nodes) = 0

\* More than one pin, all on one node.
OnOneNode(connections) ==
    /\ Cardinality(DOMAIN connections) > 1
    /\ Cardinality({connections[p] : p \in DOMAIN connections}) = 1

ShortedText == "Component '{}' is shorted (all pins connect to the same node)"

\* C12: no registered component has two or more connected pins that are all
\* the same node.  A component line whose connections, after all its tokens,
\* are more than one and all on one node (such as `from a to a`) fails as
\* shorted and adds no component; a line whose pins are on distinct nodes is
\* not rejected as shorted.
C12_NoShortedComponent ==
    [][/\ \A n \in DOMAIN circuit'.components :
             ~OnOneNode([p \in DOMAIN circuit'.components[n].connections |->
                            circuit'.components[n].connections[p].id])
       /\ ReadsConnectedComponent =>
             IF OnOneNode(PinsRead)
             THEN /\ Failed
                  /\ CaughtText = ShortedText
                  /\ CaughtArg = TokensRead[2]
                  /\ circuit' = circuit
             ELSE ~(Failed /\ CaughtText = ShortedText)
      ]_vars

\* C12 witness: `capacitor R1 from a to a` was read with a declared and failed
\* as shorted.
C12_Witness ==
    /\ pc = "raised"
    /\ line = L_cap_R1_short
    /\ <<"a">> \in DOMAIN circuit.nodes
    /\ circuit.components = EmptyDict
    /\ e # None
    /\ e[1].msg[1].lit = ShortedText

\* The line read has the shape `T N V from A to B`: T a fixed component type, N
\* the name of no registered component, V a primary value, A and B distinct
\* declared nodes.
ReadsPlainComponent ==
    /\ ReadsComponent
    /\ Len(TokensRead) = 7
    /\ CommandRead \in DOMAIN COMPONENT_SCHEMA
    /\ TokensRead[2] \notin DOMAIN circuit.components
    /\ ~contains(TokensRead[3], "=")
    /\ TokensRead[3] \notin {FROM, TO}
    /\ TokensRead[4] = FROM
    /\ TokensRead[6] = TO
    /\ TokensRead[5] \in DOMAIN circuit.nodes
    /\ TokensRead[7] \in DOMAIN circuit.nodes
    /\ TokensRead[5] # TokensRead[7]

\* The line read was accepted and added exactly the component it describes.
AddsPlainComponent ==
    /\ ~Failed
    /\ circuit' =
          [circuit EXCEPT !.components =
              Put(@, TokensRead[2],
                  [component_type |-> CommandRead,
                   name           |-> TokensRead[2],
                   primary_value  |-> Some(TokensRead[3]),
                   properties     |-> EmptyDict,
                   connections    |->
                       Put(Put(EmptyDict, FROM, circuit.nodes[TokensRead[5]]),
                           TO, circuit.nodes[TokensRead[7]])])]

\* C13 as stated: for every fixed type T, unused name N, primary value V and
\* distinct declared nodes A and B, the line `T N V from A to B` succeeds and
\* adds exactly one component (name N, type T lower-cased, primary value V, no
\* properties, connections from -> A and to -> B), and leaves the node
\* registry, the ground and every other component unchanged.
C13_PlainComponentAdded ==
    [][ReadsPlainComponent => AddsPlainComponent]_vars

\* C13 amended: the same, for nodes A and B whose names are not empty.
C13_NamedNodesComponentAdded ==
    [][(ReadsPlainComponent /\ TokensRead[5] # <<>> /\ TokensRead[7] # <<>>)
          => AddsPlainComponent]_vars

\* C13 witness: `resistor R1 10k from a to b` registered R1 with its value.
C13_Witness ==
    /\ pc = "loop"
    /\ line = L_res_R1
    /\ DOMAIN circuit.components = {<<"R","1">>}
    /\ circuit.components[<<"R","1">>].primary_value
          = Some(<<"1","0","k">>)
    /\ circuit.components[<<"R","1">>].connections[FROM].name = <<"a">>

\* The property names spec section 6 lists.
KnownPropertyNames ==
    {<<"m","o","d","e","l">>, <<"t","o","l","e","r","a","n","c","e">>,
     <<"p","o","w","e","r">>, <<"c","o","l","o","r">>, <<"s","t","a","t","e">>,
     <<"a","m","p","l","i","t","u","d","e">>,
     <<"f","r","e","q","u","e","n","c","y">>}

\* The first `key=value` token of a clause list whose key is neither in pins
\* nor in properties, when every clause before it follows the grammar and
\* names declared nodes; None when there is no such token.
RECURSIVE InvalidKey(_, _, _, _)
InvalidKey(tokens, pins, properties, nodes) ==
    IF tokens = <<>> THEN None
    ELSE IF Head(tokens) = FROM
    THEN IF /\ Len(tokens) >= 4
            /\ tokens[2] # <<>> /\ tokens[2] \in DOMAIN nodes
            /\ tokens[3] = TO
            /\ tokens[4] # <<>> /\ tokens[4] \in DOMAIN nodes
         THEN InvalidKey(SubSeq(tokens, 5, Len(tokens)), pins, properties, nodes)
         ELSE None
    ELSE IF contains(Head(tokens), "=")
    THEN LET key   == SubSeq(Head(tokens), 1, find(Head(tokens), "=") - 1)
             value == SubSeq(Head(tokens), find(Head(tokens), "=") + 1,
                             Len(Head(tokens)))
         IN  IF key = <<>> \/ value = <<>> THEN None
             ELSE IF key \in pins
             THEN IF value \in DOMAIN nodes
                  THEN InvalidKey(Tail(tokens), pins, properties, nodes)
                  ELSE None
             ELSE IF key \in properties
             THEN InvalidKey(Tail(tokens), pins, properties, nodes)
             ELSE Some(key)
    ELSE None

InvalidKeyText == "Invalid pin or property '{}' "

\* A component line of a fixed type whose first offending token is a
\* `key=value` with a key that is no pin and no known property fails with the
\* invalid-pin-or-property error for that key and adds no component.
InvalidKeyRejected ==
    (ReadsComponent /\ Len(TokensRead) >= 2
       /\ CommandRead \in DOMAIN COMPONENT_SCHEMA)
    => LET bad == InvalidKey(ClauseTokens(TokensRead), {FROM, TO},
                             KnownPropertyNames, circuit.nodes)
       IN  bad # None =>
              /\ Failed
              /\ CaughtText = InvalidKeyText
              /\ CaughtArg = bad[1]
              /\ circuit' = circuit

\* `capacitor C1 from a to b frequency=1k` is read with a and b declared and
\* the name C1 unused.
ReadsFrequencyLine ==
    /\ ReadsComponent
    /\ line' = L_cap_C1_freq
    /\ {<<"a">>, <<"b">>} \subseteq DOMAIN circuit.nodes
    /\ <<"C","1">> \notin DOMAIN circuit.components

\* C14 as stated: a component line with a `key=value` token whose key is
\* invalid for the component's type fails with the invalid-pin-or-property
\* error and adds no component; in particular, with both nodes declared, the
\* line `capacitor C1 from a to b frequency=1k` fails.
C14_FrequencyRejected ==
    [][/\ InvalidKeyRejected
       /\ ReadsFrequencyLine => Failed
      ]_vars

\* C14 amended: the invalid keys are those that are neither a pin of the type
\* nor one of the known property names; `frequency` is a known property, so
\* the line `capacitor C1 from a to b frequency=1k` is accepted and registers
\* C1 with the property frequency = 1k.
C14_InvalidKeyRejected ==
    [][/\ InvalidKeyRejected
       /\ ReadsFrequencyLine =>
             /\ ~Failed
             /\ DOMAIN circuit'.components
                   = DOMAIN circuit.components \cup {<<"C","1">>}
             /\ circuit'.components[<<"C","1">>].properties
                   = Put(EmptyDict, <<"f","r","e","q","u","e","n","c","y">>,
                         <<"1","k">>)
      ]_vars

\* C14 witness: `capacitor C1 from a to b bogus=1` was read with a and b
\* declared and failed for the key bogus.
C14_Witness ==
    /\ pc = "raised"
    /\ line = L_cap_C1_bogus
    /\ {<<"a">>, <<"b">>} \subseteq DOMAIN circuit.nodes
    /\ e # None
    /\ e[1].msg[1].lit = InvalidKeyText
    /\ e[1].msg[1].arg = <<"b","o","g","u","s">>

\* C15: while no ground is set, a `ground X` line with exactly one argument
\* succeeds whether or not X was declared: afterwards the ground name is X and
\* X is in the node registry, which is unchanged if X was declared and
\* otherwise has exactly X added.  A ground line with no argument or with more
\* than one fails and changes nothing.
C15_GroundAutoDeclares ==
    [][(ReadsCommand /\ CommandRead = GROUND) =>
          IF Len(TokensRead) = 2
          THEN circuit.ground_node_name = None =>
                  LET X == TokensRead[2] IN
                  /\ ~Failed
                  /\ circuit'.ground_node_name = Some(X)
                  /\ DOMAIN circuit'.nodes = DOMAIN circuit.nodes \cup {X}
                  /\ \A n \in DOMAIN circuit.nodes :
                        circuit'.nodes[n] = circuit.nodes[n]
                  /\ circuit'.components = circuit.components
                  /\ circuit'.subcircuit_definitions
                        = circuit.subcircuit_definitions
          ELSE /\ Failed
               /\ circuit' = circuit
      ]_vars

\* C15 witness: `ground a` as the first line declared the node a and made it
\* the ground.
C15_Witness ==
    /\ pc = "loop"
    /\ line_num = 1
    /\ line = L_ground_a
    /\ circuit.ground_node_name = Some(<<"a">>)
    /\ DOMAIN circuit.nodes = {<<"a">>}

\* C16: a `node` line read in Normal state fails whenever it gives no
\* non-empty name after splitting on commas and trimming, both when nothing
\* follows the keyword and when only commas and whitespace follow it (such as
\* `node ,`); so every `node` line processed successfully declares at least
\* one node.
C16_NodeLineDeclares ==
    [][(ReadsCommand /\ CommandRead = NODE) =>
          /\ NamesRead = <<>> => Failed
          /\ ~Failed => DOMAIN circuit'.nodes # DOMAIN circuit.nodes
      ]_vars

\* What a block-start marker carries after `[subcircuit`, without the closing
\* bracket and the surrounding whitespace.
MarkerName(l) ==
    strip_chars(SubSeq(l, Len(BLOCK_START) + 1, Len(l)), Whitespace \cup {"]"})

\* C17: a block-start marker that carries no name fails (`[subcircuit]` as
\* well as `[subcircuit ]`): every transition from Normal to InSubcircuitBlock
\* remembers a non-empty name, and so every registered SubcircuitDefinition
\* has a non-empty name.
C17_BlockNameNonEmpty ==
    [][/\ (ReadsLine /\ ~in_subcircuit_block
             /\ ~startswith(line', BLOCK_END) /\ startswith(line', BLOCK_START)
             /\ MarkerName(line') = <<>>)
          => Failed
       /\ (~in_subcircuit_block /\ in_subcircuit_block')
          => current_subcircuit_name' \notin {None, Some(<<>>)}
       /\ <<>> \notin DOMAIN circuit'.subcircuit_definitions
      ]_vars

\* C18: in InSubcircuitBlock state, a line that is neither marker never fails
\* and leaves nodes, components, definitions and ground unchanged, whatever it
\* would mean in Normal state (a node, ground or component line, an unknown
\* command): it is only appended to the block buffer.  Closing the block
\* changes nothing but the subcircuit registry.
C18_BlockLinesOnlyBuffered ==
    [][/\ (ReadsLine /\ in_subcircuit_block
             /\ ~startswith(line', BLOCK_END) /\ ~startswith(line', BLOCK_START))
          => /\ ~Failed
             /\ circuit' = circuit
             /\ subcircuit_lines' = Append(subcircuit_lines, line')
             /\ in_subcircuit_block'
             /\ current_subcircuit_name' = current_subcircuit_name
       /\ (ReadsLine /\ in_subcircuit_block /\ startswith(line', BLOCK_END))
          => /\ circuit'.nodes = circuit.nodes
             /\ circuit'.components = circuit.components
             /\ circuit'.ground_node_name = circuit.ground_node_name
      ]_vars

\* C18 witness: the lines `node a,b` and `resistor R1 10k from a to b` were
\* read inside a block and only buffered.
C18_Witness ==
    /\ pc = "loop"
    /\ in_subcircuit_block
    /\ subcircuit_lines = <<L_node_a_b, L_res_R1>>
    /\ line = L_res_R1
    /\ circuit = Circuit

\* The component line read has a registered subcircuit as its type.
ReadsInstance ==
    /\ ReadsComponent
    /\ Len(TokensRead) >= 2
    /\ CommandRead \notin DOMAIN COMPONENT_SCHEMA

\* C20: on a component line whose type is a registered subcircuit name, no
\* key is a valid pin: every `key=value` token whose key is not a known
\* property name fails as an invalid pin or property, the pin names of the
\* subcircuit's interface included.  Such a component gets connections only
\* from a `from <a> to <b>` clause, which records the pins from and to
\* whatever the interface is.
C20_InstanceHasNoPinKeys ==
    [][/\ ReadsInstance =>
             LET bad == InvalidKey(ClauseTokens(TokensRead), {},
                                   KnownPropertyNames, circuit.nodes)
             IN  bad # None =>
                    /\ Failed
                    /\ CaughtText = InvalidKeyText
                    /\ CaughtArg = bad[1]
                    /\ e'[1].msg[2].arg = CommandRead
                    /\ circuit' = circuit
       /\ \A n \in DOMAIN circuit'.components :
             circuit'.components[n].component_type \notin DOMAIN COMPONENT_SCHEMA
             => DOMAIN circuit'.components[n].connections \in {{}, {FROM, TO}}
       /\ (ReadsInstance /\ Len(TokensRead) = 6
             /\ TokensRead[2] \notin DOMAIN circuit.components
             /\ TokensRead[3] = FROM /\ TokensRead[5] = TO
             /\ {TokensRead[4], TokensRead[6]} \subseteq
                   DOMAIN circuit.nodes \ {<<>>}
             /\ TokensRead[4] # TokensRead[6])
          => /\ ~Failed
             /\ TokensRead[2] \in DOMAIN circuit'.components
             /\ circuit'.components[TokensRead[2]].connections
                   = Put(Put(EmptyDict, FROM, circuit.nodes[TokensRead[4]]),
                         TO, circuit.nodes[TokensRead[6]])
      ]_vars

\* C20 witness: with the subcircuit amp registered with the interface a, b and
\* the node b declared, `amp X2 a=b` failed for the key a.
C20_Witness ==
    /\ pc = "raised"
    /\ line = L_amp_X2_pin
    /\ <<"a","m","p">> \in DOMAIN circuit.subcircuit_definitions
    /\ circuit.subcircuit_definitions[<<"a","m","p">>].interface
          = << <<"a">>, <<"b">> >>
    /\ <<"b">> \in DOMAIN circuit.nodes
    /\ e # None
    /\ e[1].msg[1].lit = InvalidKeyText
    /\ e[1].msg[1].arg = <<"a">>

\* The lines of a block that are kept as its body.
BodyOf(lines) ==
    SelectSeq(lines, LAMBDA l : /\ l # <<>>
                                /\ ~startswith(l, <<"#">>)
                                /\ ~IsExposeLine(l))

\* C19: closing a block whose name is already registered does not fail; the
\* later definition silently replaces the earlier one under that name
\* (interface and body), and no other definition changes.
C19_RedefinitionReplaces ==
    [][(ReadsLine /\ in_subcircuit_block /\ startswith(line', BLOCK_END)
          /\ current_subcircuit_name[1] \in DOMAIN circuit.subcircuit_definitions
          /\ ~NoInterface(subcircuit_lines))
       => /\ ~Failed
          /\ circuit'.subcircuit_definitions =
                Put(circuit.subcircuit_definitions, current_subcircuit_name[1],
                    [name      |-> current_subcircuit_name[1],
                     interface |-> PublicNames(subcircuit_lines),
                     body_text |-> join(<<"\n">>, BodyOf(subcircuit_lines))])
      ]_vars

\* C19 witness: a six-line document of two blocks named amp, the second with
\* the line `expose p=q`, was read; amp has the interface p.
C19_Witness ==
    /\ pc = "loop"
    /\ line_num = 6
    /\ line = L_end
    /\ ~in_subcircuit_block
    /\ DOMAIN circuit.subcircuit_definitions = {<<"a","m","p">>}
    /\ circuit.subcircuit_definitions[<<"a","m","p">>].interface = << <<"p">> >>

====
